---------------------------- MODULE Spec2Model ----------------------------
(***************************************************************************)
(* SocialGenius (src/App.tsx): the image-composition subsystem.            *)
(*                                                                         *)
(*  - ImageCropper: a crop selection in percentages of the image, locked   *)
(*    to a target ratio, repositioned by dragging and rasterized by        *)
(*    applyCrop.                                                           *)
(*  - ImageEditor: a canvas on which an effect draws the source image and  *)
(*    one styled text, exported by handleSave.                             *)
(*  - PlatformCard: opens the two modals on the post's imageUrl and        *)
(*    replaces the imageUrl by what they hand back.                        *)
(*                                                                         *)
(* JavaScript numbers are modelled as exact rationals [n, d] (d > 0, in    *)
(* lowest terms), so that a division, a halving and a product by the       *)
(* ratio are what the code computes and not integer approximations.        *)
(***************************************************************************)
EXTENDS Integers, Sequences, FiniteSets, TLC

(***************************************************************************)
(* Bounds of the model.                                                    *)
(***************************************************************************)
\* pointer moves handled in one crop session
MaxMoves == 3
\* style changes (text, font, color, size, position) in one editor session
MaxStyleChanges == 2
\* images handed back to the post (Apply Crop / Apply Overlay) in one run
MaxEdits == 1
\* handleSchedule calls in one run
MaxScheduled == 2

(***************************************************************************)
(* Numbers.                                                                *)
(***************************************************************************)
RECURSIVE GCD(_, _)
GCD(a, b) == IF b = 0 THEN a ELSE GCD(b, a % b)

Abs(a) == IF a < 0 THEN -a ELSE a

\* the number n/d, d # 0
Rat(n, d) ==
    LET g == GCD(Abs(n), Abs(d))
        s == IF d < 0 THEN -1 ELSE 1
    IN  [n |-> (s * n) \div g, d |-> (s * d) \div g]

Z(i) == [n |-> i, d |-> 1]

RAdd(a, b) == Rat(a.n * b.d + b.n * a.d, a.d * b.d)
RSub(a, b) == Rat(a.n * b.d - b.n * a.d, a.d * b.d)
RMul(a, b) == Rat(a.n * b.n, a.d * b.d)
\* a / b for b # 0 (a division by zero is handled where it occurs)
RDiv(a, b) == Rat(a.n * b.d, a.d * b.n)
RLe(a, b)  == a.n * b.d <= b.n * a.d
RLt(a, b)  == a.n * b.d < b.n * a.d
\* Math.min, Math.max
RMin(a, b) == IF RLe(a, b) THEN a ELSE b
RMax(a, b) == IF RLe(a, b) THEN b ELSE a

\* Math.round of a non-negative number
MathRound(a) == (2 * a.n + a.d) \div (2 * a.d)

\* WebIDL's conversion of a non-negative number to an unsigned long (the type
\* of canvas.width and canvas.height): the fraction is discarded
ToUnsignedLong(a) == a.n \div a.d

(***************************************************************************)
(* Program constants.                                                      *)
(***************************************************************************)
\* PLATFORM_CONFIG[...].numericRatio: 16/9 and 1.  ImageCropper takes the
\* ratio as a prop of type number: 9/16 (an AspectRatio of types.ts) and 0
\* stand for the tall and the invalid values of that prop.
PLATFORM_CONFIG == {Rat(16, 9), Z(1)}
TargetRatios == PLATFORM_CONFIG \cup {Rat(9, 16), Z(0)}

\* what an imageUrl decodes to: the natural size, and whether it decodes at
\* all (an upload of a file that is no image gives a data URL that does not)
Images ==
    { [w |-> 1000, h |-> 1000, ok |-> TRUE,  gen |-> 0],
      [w |-> 1344, h |-> 768,  ok |-> TRUE,  gen |-> 0],
      [w |-> 0,    h |-> 0,    ok |-> FALSE, gen |-> 0] }

\* pointer positions <<x, y>>, in percent of the container (clientX -
\* rect.left over rect.width, times 100, and the same for y)
Pointers == {<<5, 5>>, <<50, 50>>, <<100, 100>>, <<0, 100>>}

\* useState({ x: 10, y: 10, width: 80 })
InitialCrop == [x |-> Z(10), y |-> Z(10), width |-> Z(80)]

NoOutput == [handed |-> FALSE]

NoMove == [handled |-> FALSE]

\* a modal session opened on the imageUrl img
Opened(img) == [state |-> "open", image |-> img, edited |-> FALSE]

VARIABLES
    imageUrl,      \* PlatformCard: result.imageUrl, as what it decodes to
    edits,         \* onImageUpdated calls so far
    session,       \* the last modal session: the imageUrl it was opened on,
                   \* how it was closed, and whether the user had changed
                   \* the selection or the style by then
    isCropping,    \* PlatformCard: the cropper is mounted
    targetRatio,   \* ImageCropper prop
    crop,          \* ImageCropper state
    isDragging,    \* ImageCropper state
    rendered,      \* crop and isDragging as of the last render: what the
                   \* handlers' closures read
    cropImg,       \* the <img ref={imageRef}>: "pending", "complete", "broken"
    moves,         \* pointer moves handled in this session
    lastMove,      \* the last handleMouseMove: the pointer, the state (prev,
                   \* state) and the closure (isDragging, clampedHeight) it
                   \* ran with
    lastCrop,      \* the last applyCrop: what it handed to onConfirm
    cropError,     \* an exception left applyCrop
    isDesigning,   \* PlatformCard: the editor is mounted
    style,         \* ImageEditor state: text, font, color, fontSize, positionY
    canvas,        \* the <canvas ref={canvasRef}>: size, context state, and
                   \* the drawing operations since it was last cleared
    ctx2d,         \* whether canvas.getContext('2d') gives a context
    loads,         \* the effect's images whose load is pending, each with
                   \* the style its onload closure holds
    effects,       \* runs of the effect in this session
    renders,       \* the onload runs of this session, in order: the style
                   \* and the canvas each left
    lastRender,    \* the style of the last onload run
    lastSave,      \* the last handleSave: what it handed to onSave
    view,          \* App: 'onboarding', 'generator' or 'calendar'
    onboardingData, \* App: the brand profile, or null
    storage,       \* localStorage's item 'socialgenius_profile'
    mounted,       \* App's mount effect has run
    entered,       \* how the view last left 'onboarding'
    idea,          \* App: the Core Idea textarea
    syncImages,    \* App: Auto-Sync
    results,       \* App: the PostResult of each platform, or null
    scheduledPosts, \* App: the calendar's entries, in order
    isGenerating,  \* App: a generateContent call is running
    requests,      \* the running generateContent call: the platforms it
                   \* was started for, its text and image requests, and the
                   \* platforms whose result it has written
    scheduled      \* handleSchedule calls so far

cropVars == <<isCropping, targetRatio, crop, isDragging, rendered, cropImg,
              moves, lastMove, lastCrop, cropError>>

editVars == <<isDesigning, style, canvas, ctx2d, loads, effects, renders,
              lastRender, lastSave>>

appVars == <<view, onboardingData, storage, mounted, entered, idea,
             syncImages, results, scheduledPosts, isGenerating, requests,
             scheduled>>

vars == <<imageUrl, edits, session, cropVars, editVars, appVars>>

(***************************************************************************)
(* ImageCropper.                                                           *)
(***************************************************************************)
\* the height as crop.width * targetRatio
clampedHeightOfProduct(c, r) ==
    RMin(RMul(c.width, r), RSub(Z(100), c.y))

\* const height = crop.width / targetRatio;
\* const clampedHeight = Math.min(height, 100 - crop.y);
\* (x / 0 is +Infinity for x > 0, and Math.min(+Infinity, v) is v)
clampedHeight(c, r) ==
    IF r.n = 0
    THEN RSub(Z(100), c.y)
    ELSE RMin(RDiv(c.width, r), RSub(Z(100), c.y))

\* const clampedWidth = clampedHeight * targetRatio;
clampedWidth(c, r) == RMul(clampedHeight(c, r), r)

\* the updater without its Math.max(0, ...)
updateSelectionNoFloor(prev, ch, px, py) ==
    [prev EXCEPT
       !.x = RMin(RSub(Z(px), RDiv(prev.width, Z(2))),
                  RSub(Z(100), prev.width)),
       !.y = RMin(RSub(Z(py), RDiv(ch, Z(2))), RSub(Z(100), ch))]

\* the updater putting the selection's top left corner at the pointer
updateSelectionAtCorner(prev, ch, px, py) ==
    [prev EXCEPT
       !.x = RMax(Z(0), RMin(Z(px), RSub(Z(100), prev.width))),
       !.y = RMax(Z(0), RMin(Z(py), RSub(Z(100), ch)))]

\* the updater also cutting the width down to the clamped height
updateSelectionFitWidth(prev, ch, px, py) ==
    [prev EXCEPT
       !.x = RMax(Z(0), RMin(RSub(Z(px), RDiv(prev.width, Z(2))),
                             RSub(Z(100), prev.width))),
       !.y = RMax(Z(0), RMin(RSub(Z(py), RDiv(ch, Z(2))),
                             RSub(Z(100), ch))),
       !.width = RMin(prev.width, ch)]

\* the setCrop updater of handleMouseMove: prev is the state it is applied
\* to, ch the clampedHeight of the render whose handler runs
updateSelection(prev, ch, px, py) ==
    [prev EXCEPT
       !.x = RMax(Z(0), RMin(RSub(Z(px), RDiv(prev.width, Z(2))),
                             RSub(Z(100), prev.width))),
       !.y = RMax(Z(0), RMin(RSub(Z(py), RDiv(ch, Z(2))),
                             RSub(Z(100), ch)))]

\* img.naturalWidth, img.naturalHeight of the cropper's <img>: 0 until the
\* image is available
naturalWidth  == IF cropImg = "complete" THEN imageUrl.w ELSE 0
naturalHeight == IF cropImg = "complete" THEN imageUrl.h ELSE 0

\* what the closures of the last render hold
Snapshot(c, d) == [crop |-> c, isDragging |-> d]

\* a mount that finds the selection of the session before
CropperKept ==
    /\ crop' = crop
    /\ isDragging' = FALSE
    /\ rendered' = Snapshot(crop, FALSE)
    /\ cropImg' = "pending"
    /\ moves' = 0
    /\ lastMove' = NoMove

\* the component's state, as mounted and as left when it is unmounted
CropperFresh ==
    /\ crop' = InitialCrop
    /\ isDragging' = FALSE
    /\ rendered' = Snapshot(InitialCrop, FALSE)
    /\ cropImg' = "pending"
    /\ moves' = 0
    /\ lastMove' = NoMove

\* PlatformCard: setIsCropping(true) (the Crop button, "Crop Image" of the
\* zoom view) mounts <ImageCropper imageUrl targetRatio ...>.  The modals are
\* fixed inset-0 layers over the card, so one is opened at a time.
OpenCropper(r) ==
    /\ ~isCropping /\ ~isDesigning
    /\ edits < MaxEdits
    /\ isCropping' = TRUE
    /\ session' = Opened(imageUrl)
    /\ targetRatio' = r
    /\ CropperFresh
    /\ lastCrop' = NoOutput
    /\ cropError' = FALSE
    /\ lastSave' = NoOutput
    /\ UNCHANGED <<imageUrl, edits, isDesigning, style, canvas, ctx2d, loads,
                   effects, renders, lastRender, appVars>>

\* the <img src={imageUrl}> finishes loading
CropImgLoad ==
    /\ isCropping /\ cropImg = "pending" /\ imageUrl.ok
    /\ cropImg' = "complete"
    /\ UNCHANGED <<imageUrl, edits, session, isCropping, targetRatio, crop,
                   isDragging, rendered, moves, lastMove, lastCrop, cropError,
                   editVars, appVars>>

\* the <img src={imageUrl}> fails to decode
CropImgError ==
    /\ isCropping /\ cropImg = "pending" /\ ~imageUrl.ok
    /\ cropImg' = "broken"
    /\ UNCHANGED <<imageUrl, edits, session, isCropping, targetRatio, crop,
                   isDragging, rendered, moves, lastMove, lastCrop, cropError,
                   editVars, appVars>>

\* onMouseDown={() => setIsDragging(true)}: a discrete event, rendered
\* before the next event is handled
MouseDown ==
    /\ isCropping
    /\ isDragging' = TRUE
    /\ rendered' = Snapshot(crop, TRUE)
    /\ UNCHANGED <<imageUrl, edits, session, isCropping, targetRatio, crop,
                   cropImg, moves, lastMove, lastCrop, cropError, editVars,
                   appVars>>

\* onMouseUp={() => setIsDragging(false)}
MouseUp ==
    /\ isCropping
    /\ isDragging' = FALSE
    /\ rendered' = Snapshot(crop, FALSE)
    /\ UNCHANGED <<imageUrl, edits, session, isCropping, targetRatio, crop,
                   cropImg, moves, lastMove, lastCrop, cropError, editVars,
                   appVars>>

\* onMouseLeave={() => setIsDragging(false)}: a continuous event, rendered
\* by a later task
MouseLeave ==
    /\ isCropping
    /\ isDragging' = FALSE
    /\ UNCHANGED <<imageUrl, edits, session, isCropping, targetRatio, crop,
                   rendered, cropImg, moves, lastMove, lastCrop, cropError,
                   editVars, appVars>>

\* handleMouseMove: isDragging and clampedHeight are those of the render the
\* handler belongs to, prev is the state the updater is applied to
handleMouseMove(px, py) ==
    /\ isCropping
    /\ moves < MaxMoves
    /\ moves' = moves + 1
    /\ lastMove' = [handled |-> TRUE, px |-> px, py |-> py,
                    prev |-> crop, state |-> isDragging,
                    isDragging |-> rendered.isDragging,
                    clampedHeight |->
                        clampedHeight(rendered.crop, targetRatio)]
    /\ IF ~rendered.isDragging
       THEN crop' = crop
       ELSE crop' = updateSelection(crop,
                                    clampedHeight(rendered.crop, targetRatio),
                                    px, py)
    /\ UNCHANGED <<imageUrl, edits, session, isCropping, targetRatio,
                   isDragging, rendered, cropImg, lastCrop, cropError,
                   editVars, appVars>>

\* React renders the component with the state the continuous events left
CropRender ==
    /\ isCropping
    /\ rendered # Snapshot(crop, isDragging)
    /\ rendered' = Snapshot(crop, isDragging)
    /\ UNCHANGED <<imageUrl, edits, session, isCropping, targetRatio, crop,
                   isDragging, cropImg, moves, lastMove, lastCrop, cropError,
                   editVars, appVars>>

\* PlatformCard: onImageUpdated(newUrl) sets result.imageUrl.  A canvas
\* without pixels exports "data:,", which decodes to nothing.
onImageUpdated(w, h) ==
    /\ imageUrl' = [w |-> w, h |-> h, ok |-> (w > 0 /\ h > 0),
                    gen |-> imageUrl.gen + 1]
    /\ edits' = edits + 1

\* the source rectangle and the canvas size applyCrop computes from the
\* closure's crop
CropRegion(c, r, nw, nh) ==
    LET sourceX      == RMul(RDiv(c.x, Z(100)), Z(nw))
        sourceY      == RMul(RDiv(c.y, Z(100)), Z(nh))
        sourceWidth  == RMul(RDiv(clampedWidth(c, r), Z(100)), Z(nw))
        sourceHeight == RMul(RDiv(clampedHeight(c, r), Z(100)), Z(nh))
    IN  [sourceX |-> sourceX, sourceY |-> sourceY,
         sourceWidth |-> sourceWidth, sourceHeight |-> sourceHeight,
         width  |-> ToUnsignedLong(sourceWidth),
         height |-> ToUnsignedLong(sourceHeight)]

\* applyCrop, with onConfirm = (croppedUrl) => { onImageUpdated(croppedUrl);
\* setIsCropping(false); }.  ctx is what canvas.getContext('2d') returns.
\* drawImage throws InvalidStateError for an image in the broken state, and
\* draws nothing for an image not yet decoded or a source rectangle of zero
\* width or height.
applyCrop(ctx) ==
    /\ isCropping
    /\ IF ~ctx
       THEN UNCHANGED vars
       ELSE IF cropImg = "broken"
       THEN /\ cropError' = TRUE
            /\ UNCHANGED <<imageUrl, edits, session, isCropping, targetRatio,
                           crop, isDragging, rendered, cropImg, moves,
                           lastMove, lastCrop, editVars, appVars>>
       ELSE LET reg == CropRegion(rendered.crop, targetRatio,
                                  naturalWidth, naturalHeight)
                drawn == /\ cropImg = "complete"
                         /\ reg.sourceWidth.n # 0
                         /\ reg.sourceHeight.n # 0
            IN  /\ lastCrop' = [handed |-> TRUE,
                                source |-> imageUrl,
                                loaded |-> (cropImg = "complete"),
                                ratio |-> targetRatio,
                                selection |-> rendered.crop,
                                region |-> reg,
                                drawn |-> drawn]
                /\ onImageUpdated(reg.width, reg.height)
                /\ isCropping' = FALSE
                /\ session' = [session EXCEPT
                                 !.state = "apply",
                                 !.edited = (rendered.crop # InitialCrop)]
                /\ CropperFresh
                /\ UNCHANGED <<targetRatio, cropError, editVars, appVars>>

\* a Cancel that hands the uncropped image to onImageUpdated
CancelCropConfirming ==
    /\ isCropping
    /\ isCropping' = FALSE
    /\ session' = [session EXCEPT !.state = "cancel",
                                  !.edited = (crop # InitialCrop)]
    /\ CropperFresh
    /\ onImageUpdated(naturalWidth, naturalHeight)
    /\ UNCHANGED <<targetRatio, lastCrop, cropError, editVars, appVars>>

\* onCancel={() => setIsCropping(false)}
CancelCrop ==
    /\ isCropping
    /\ isCropping' = FALSE
    /\ session' = [session EXCEPT !.state = "cancel",
                                  !.edited = (crop # InitialCrop)]
    /\ CropperFresh
    /\ UNCHANGED <<imageUrl, edits, targetRatio, lastCrop, cropError,
                   editVars, appVars>>

CropNext ==
    \/ \E r \in TargetRatios : OpenCropper(r)
    \/ CropImgLoad
    \/ CropImgError
    \/ MouseDown
    \/ MouseUp
    \/ MouseLeave
    \/ \E p \in Pointers : handleMouseMove(p[1], p[2])
    \/ CropRender
    \/ \E ctx \in BOOLEAN : applyCrop(ctx)
    \/ CancelCrop

(***************************************************************************)
(* ImageEditor.                                                            *)
(***************************************************************************)
\* FONTS; Display alone has a weight
FONTS ==
    << [name |-> "Sans", family |-> "'Inter', sans-serif", weight |-> ""],
       [name |-> "Serif", family |-> "'Playfair Display', serif",
        weight |-> ""],
       [name |-> "Mono", family |-> "'Inter Tight', monospace",
        weight |-> ""],
       [name |-> "Display", family |-> "'Inter', sans-serif",
        weight |-> "900"] >>

\* COLORS
COLORS == <<"#FFFFFF", "#000000", "#4F46E5", "#EF4444", "#10B981", "#F59E0B">>

\* a number input: the position is taken as it is
RangeValueUnclamped(min, max, p) == (2 * p.n + p.d) \div (2 * p.d)

\* <input type="range" min max> (step 1): the value for a thumb dragged to
\* the position p, in the units of the value, is p brought into [min, max]
\* and rounded to a whole step; parseInt of its string gives that integer
RangeValue(min, max, p) ==
    IF RLe(p, Z(min)) THEN min
    ELSE IF RLe(Z(max), p) THEN max
    ELSE (2 * p.n + p.d) \div (2 * p.d)

\* where the pointer drags a thumb to: past the left end of the track, on
\* it, past its right end
SliderPositions == {Z(-20), Rat(65, 2), Z(130)}

\* what the user types and picks: texts, fonts, colors, and values of the
\* two range inputs (min 10 max 100, min 0 max 100)
Texts == {"", "SALE", "NEW"}
FontChoices == {FONTS[1], FONTS[4]}
ColorChoices == {COLORS[1], COLORS[4]}
FontSizes == {RangeValue(10, 100, p) : p \in SliderPositions}
Positions == {RangeValue(0, 100, p) : p \in SliderPositions}

\* useState(''), useState(FONTS[0]), useState('#FFFFFF'), useState(32),
\* useState(50)
InitialStyle ==
    [text |-> "", font |-> FONTS[1], color |-> COLORS[1],
     fontSize |-> 32, positionY |-> 50]

\* a 2d context's state as created, and as reset when the canvas is resized
\* (the font is "10px sans-serif")
DefaultCtx ==
    [fillStyle |-> "#000000",
     font |-> [weight |-> "normal", px |-> Z(10), family |-> "sans-serif"],
     textAlign |-> "start", shadowColor |-> "rgba(0,0,0,0)", shadowBlur |-> 0]

\* a canvas element as created: 300 by 150, transparent
BlankCanvas ==
    [width |-> 300, height |-> 150, ctx |-> DefaultCtx, ops |-> <<>>]

NoRender == [done |-> FALSE]

\* a resize that keeps the bitmap and the context as they are
SetSizeKeepBitmap(cv, w, h) == [cv EXCEPT !.width = w, !.height = h]

\* a resize that clears the bitmap and keeps the context's state
SetSizeKeepContext(cv, w, h) ==
    [width |-> w, height |-> h, ctx |-> cv.ctx, ops |-> <<>>]

\* canvas.width = w; canvas.height = h: setting either clears the bitmap and
\* resets the context's state
SetSize(cv, w, h) ==
    [width |-> w, height |-> h, ctx |-> DefaultCtx, ops |-> <<>>]

\* ctx.drawImage(img, 0, 0), under the context's shadow
DrawImage(cv, img) ==
    [cv EXCEPT !.ops = Append(@, [op |-> "drawImage", image |-> img,
                                  dx |-> 0, dy |-> 0,
                                  shadowColor |-> cv.ctx.shadowColor,
                                  shadowBlur |-> cv.ctx.shadowBlur])]

\* the font without the scaling by img.width / 500
FontOfUnscaled(st, img) ==
    [weight |-> IF st.font.weight # "" THEN st.font.weight ELSE "700",
     px     |-> Z(st.fontSize),
     family |-> st.font.family]

\* `${font.weight || '700'} ${fontSize * (img.width / 500)}px ${font.family}`
FontOf(st, img) ==
    [weight |-> IF st.font.weight # "" THEN st.font.weight ELSE "700",
     px     |-> RMul(Z(st.fontSize), RDiv(Z(img.w), Z(500))),
     family |-> st.font.family]

\* the text placed vertically by a percentage of the canvas's width
DrawTextByWidth(cv, st, img) ==
    LET c == [fillStyle |-> st.color, font |-> FontOf(st, img),
              textAlign |-> "center", shadowColor |-> "rgba(0,0,0,0.5)",
              shadowBlur |-> 10]
    IN  [cv EXCEPT
           !.ctx = c,
           !.ops = Append(@, [op |-> "fillText", text |-> st.text,
                              x |-> RDiv(Z(cv.width), Z(2)),
                              y |-> RDiv(Z(cv.width * st.positionY), Z(100)),
                              ctx |-> c])]

\* the body of if (text) { ... }: fillStyle, font, textAlign, shadowColor,
\* shadowBlur, fillText(text, canvas.width / 2,
\* (canvas.height * positionY) / 100)
DrawText(cv, st, img) ==
    LET c == [fillStyle |-> st.color, font |-> FontOf(st, img),
              textAlign |-> "center", shadowColor |-> "rgba(0,0,0,0.5)",
              shadowBlur |-> 10]
    IN  [cv EXCEPT
           !.ctx = c,
           !.ops = Append(@, [op |-> "fillText", text |-> st.text,
                              x |-> RDiv(Z(cv.width), Z(2)),
                              y |-> RDiv(Z(cv.height * st.positionY), Z(100)),
                              ctx |-> c])]

\* if (text): a string is truthy when it is not empty
Truthy(str) == str # ""

\* img.onload, with the style its closure holds
onload(cv, st, img) ==
    LET sized == SetSize(cv, img.w, img.h)
        drawn == DrawImage(sized, img)
    IN  IF Truthy(st.text) THEN DrawText(drawn, st, img) ELSE drawn

\* the component's state, as mounted
EditorFresh ==
    /\ style' = InitialStyle
    /\ canvas' = BlankCanvas
    /\ effects' = 0
    /\ loads' = {}
    /\ renders' = <<>>
    /\ lastRender' = NoRender

\* the effect, run after a render whose dependencies changed: without a 2d
\* context it returns, otherwise it starts the load of a new Image()
useEffect(st, ctx) ==
    /\ effects' = effects + 1
    /\ loads' = IF ctx
                THEN loads \cup {[id |-> effects + 1, style |-> st]}
                ELSE loads

\* PlatformCard: setIsDesigning(true) ("Add Text", "Edit text overlay" of the
\* zoom view) mounts <ImageEditor imageUrl ...>; the effect runs after the
\* first render
OpenEditor(ctx) ==
    /\ ~isDesigning /\ ~isCropping
    /\ edits < MaxEdits
    /\ isDesigning' = TRUE
    /\ session' = Opened(imageUrl)
    /\ ctx2d' = ctx
    /\ style' = InitialStyle
    /\ canvas' = BlankCanvas
    /\ effects' = 1
    /\ loads' = IF ctx THEN {[id |-> 1, style |-> InitialStyle]} ELSE {}
    /\ renders' = <<>>
    /\ lastRender' = NoRender
    /\ lastSave' = NoOutput
    /\ lastCrop' = NoOutput
    /\ cropError' = FALSE
    /\ UNCHANGED <<imageUrl, edits, isCropping, targetRatio, crop, isDragging,
                   rendered, cropImg, moves, lastMove, appVars>>

\* a setter called with a new value: the component renders and the effect
\* runs with the new style (a setter called with the value held renders
\* nothing)
SetStyle(st) ==
    /\ isDesigning
    /\ st # style
    /\ effects <= MaxStyleChanges
    /\ style' = st
    /\ useEffect(st, ctx2d)
    /\ UNCHANGED <<imageUrl, edits, session, cropVars, isDesigning, canvas,
                   ctx2d, renders, lastRender, lastSave, appVars>>

\* onChange={e => setText(e.target.value)}
setText(t) == SetStyle([style EXCEPT !.text = t])
\* onClick={() => setFont(f)}
setFont(f) == SetStyle([style EXCEPT !.font = f])
\* onClick={() => setColor(c)}
setColor(c) == SetStyle([style EXCEPT !.color = c])
\* onChange={e => setFontSize(parseInt(e.target.value))}
setFontSize(n) == SetStyle([style EXCEPT !.fontSize = n])
\* onChange={e => setPositionY(parseInt(e.target.value))}
setPositionY(n) == SetStyle([style EXCEPT !.positionY = n])

\* const canvas = canvasRef.current: the element the onload closure of a
\* pending image draws on is the one <canvas> of the mounted editor
Surface(l) == "canvasRef.current"

\* one of the pending images loads: its onload runs
ImgLoad(l) ==
    /\ isDesigning /\ l \in loads /\ imageUrl.ok
    /\ canvas' = onload(canvas, l.style, imageUrl)
    /\ loads' = loads \ {l}
    /\ renders' = Append(renders, [id |-> l.id, style |-> l.style,
                                    out |-> canvas'])
    /\ lastRender' = [done |-> TRUE, id |-> l.id, style |-> l.style]
    /\ UNCHANGED <<imageUrl, edits, session, cropVars, isDesigning, style,
                   ctx2d, effects, lastSave, appVars>>

\* one of the pending images fails to decode: no handler is set for it
ImgError(l) ==
    /\ isDesigning /\ l \in loads /\ ~imageUrl.ok
    /\ loads' = loads \ {l}
    /\ UNCHANGED <<imageUrl, edits, session, cropVars, isDesigning, style,
                   canvas, ctx2d, effects, renders, lastRender, lastSave,
                   appVars>>

\* handleSave, with onSave = (url) => { onImageUpdated(url);
\* setIsDesigning(false); }
handleSave ==
    /\ isDesigning
    /\ lastSave' = [handed |-> TRUE,
                    source |-> imageUrl,
                    style |-> style,
                    width |-> canvas.width,
                    height |-> canvas.height,
                    ops |-> canvas.ops,
                    pending |-> loads,
                    rendered |-> lastRender]
    /\ onImageUpdated(canvas.width, canvas.height)
    /\ isDesigning' = FALSE
    /\ session' = [session EXCEPT !.state = "apply",
                                  !.edited = (style # InitialStyle)]
    /\ EditorFresh
    /\ UNCHANGED <<cropVars, ctx2d, appVars>>

\* onCancel={() => setIsDesigning(false)}
CancelEdit ==
    /\ isDesigning
    /\ isDesigning' = FALSE
    /\ session' = [session EXCEPT !.state = "cancel",
                                  !.edited = (style # InitialStyle)]
    /\ EditorFresh
    /\ UNCHANGED <<imageUrl, edits, cropVars, ctx2d, lastSave, appVars>>

EditNext ==
    \/ \E ctx \in BOOLEAN : OpenEditor(ctx)
    \/ \E t \in Texts : setText(t)
    \/ \E f \in FontChoices : setFont(f)
    \/ \E c \in ColorChoices : setColor(c)
    \/ \E n \in FontSizes : setFontSize(n)
    \/ \E n \in Positions : setPositionY(n)
    \/ \E l \in loads : ImgLoad(l)
    \/ \E l \in loads : ImgError(l)
    \/ handleSave
    \/ CancelEdit

(***************************************************************************)
(* App: the profile and the view.                                          *)
(***************************************************************************)
\* Platform (types.ts), two of the five: one of ratio 16:9, one of 1:1
Platforms == {"LinkedIn", "Instagram"}

\* PLATFORM_CONFIG[p].ratio
AspectRatioOf(p) == IF p = "Instagram" THEN "1:1" ELSE "16:9"

\* onboardingData === null
NoProfile == [null |-> TRUE]

\* the OnboardingData the form submits: the submit button is disabled while
\* selectedPlatforms is empty
Profiles ==
    {[null |-> FALSE, selectedPlatforms |-> ps] :
        ps \in (SUBSET Platforms) \ {{}}}

\* localStorage.getItem gives null when the item was never set
NoItem == [null |-> TRUE]
\* JSON.stringify(data): the string whose parse is data
JSONstringify(data) == [null |-> FALSE, json |-> data]
\* JSON.parse(saved)
JSONparse(saved) == saved.json

\* const activePlatforms = useMemo(...)
activePlatforms ==
    IF onboardingData.null THEN {} ELSE onboardingData.selectedPlatforms

\* what the other App actions leave alone
postVars == <<idea, syncImages, results, scheduledPosts, isGenerating,
              requests, scheduled>>
modalVars == <<imageUrl, edits, session, cropVars, editVars>>

\* useEffect(() => { const saved = localStorage.getItem(...); if (saved)
\* {...} }, []): what an earlier visit left in localStorage is known when
\* the effect reads it
MountEffect(saved) ==
    /\ ~mounted
    /\ mounted' = TRUE
    /\ storage' = saved
    /\ IF ~saved.null
       THEN /\ onboardingData' = JSONparse(saved)
            /\ view' = "generator"
            /\ entered' = "saved"
       ELSE UNCHANGED <<onboardingData, view, entered>>
    /\ UNCHANGED <<postVars, modalVars>>

\* handleOnboardingSubmit, from the form of OnboardingView
handleOnboardingSubmit(data) ==
    /\ mounted /\ view = "onboarding"
    /\ onboardingData' = data
    /\ storage' = JSONstringify(data)
    /\ view' = "generator"
    /\ entered' = "submit"
    /\ UNCHANGED <<mounted, postVars, modalVars>>

\* a Cancel button that OnboardingView shows without a profile too
onCancelAlways ==
    /\ mounted /\ view = "onboarding"
    /\ view' = "generator"
    /\ entered' = "cancel"
    /\ UNCHANGED <<onboardingData, storage, mounted, postVars, modalVars>>

\* onCancel={onboardingData ? () => setView('generator') : undefined}: the
\* Cancel button exists only with a profile
onCancel ==
    /\ mounted /\ view = "onboarding"
    /\ ~onboardingData.null
    /\ view' = "generator"
    /\ entered' = "cancel"
    /\ UNCHANGED <<onboardingData, storage, mounted, postVars, modalVars>>

\* the header's buttons: setView('generator'), setView('calendar'),
\* setView('onboarding'); the header is not rendered in the onboarding view
setView(v) ==
    /\ mounted /\ view # "onboarding"
    /\ v # view
    /\ view' = v
    /\ UNCHANGED <<onboardingData, storage, mounted, entered, postVars,
                   modalVars>>

(***************************************************************************)
(* App: generateContent and its requests.                                  *)
(***************************************************************************)
\* what the Core Idea textarea can hold
Ideas == {"", " ", "launch"}

\* idea.trim()
Trim(i) == IF i = " " THEN "" ELSE i

\* results[p] of a platform that has no result
NoResult == [null |-> TRUE]

\* no generateContent call was made yet
NoRequests ==
    [platforms |-> {}, shared |-> FALSE,
     text |-> [p \in Platforms |-> "idle"],
     image |-> [p \in Platforms |-> "idle"],
     handled |-> {}]

\* textResult.text and textResult.suggestedTime of generateSocialText
GeneratedText(p) == IF p = "Instagram" THEN "caption" ELSE "article"
SuggestedTime == "Optimal window"

\* the data URL generateSocialImage returns for a platform's prompt
GeneratedImage(p) == IF p = "Instagram" THEN "image 1:1" ELSE "image 16:9"

\* err.message of a rejected request: error.message || "..." is not empty
TextError == "Connection to text model failed."
ImageError == "The image generation service encountered a problem."

\* onChange of the Core Idea textarea
setIdea(i) ==
    /\ mounted /\ view = "generator"
    /\ i # idea
    /\ idea' = i
    /\ UNCHANGED <<view, onboardingData, storage, mounted, entered,
                   syncImages, results, scheduledPosts, isGenerating,
                   requests, scheduled, modalVars>>

\* onClick of the Auto-Sync switch
setSyncImages ==
    /\ mounted /\ view = "generator"
    /\ syncImages' = ~syncImages
    /\ UNCHANGED <<view, onboardingData, storage, mounted, entered, idea,
                   results, scheduledPosts, isGenerating, requests,
                   scheduled, modalVars>>

\* the post ids in use: those of the results and of the calendar's entries
PostIds ==
    {results[p].id : p \in {q \in Platforms : ~results[q].null}}
        \cup {scheduledPosts[i].postId : i \in DOMAIN scheduledPosts}

\* Math.random().toString(36).substr(2, 9): an id that is not in use
RandomId(used) == CHOOSE n \in 1..(Cardinality(used) + 1) : n \notin used

\* the id of initialResults[p]: the ids of one call differ from each other
InitialId(p) ==
    IF p = "LinkedIn" THEN RandomId(PostIds)
    ELSE RandomId(PostIds \cup {RandomId(PostIds)})

\* initialResults[p]
InitialResult(p) ==
    [null |-> FALSE, id |-> InitialId(p),
     platform |-> p, content |-> "", suggestedTime |-> "", imageUrl |-> "",
     aspectRatio |-> AspectRatioOf(p), loading |-> TRUE, error |-> ""]

\* generateContent up to its first await: the button is disabled while
\* isGenerating or without an idea
generateContent ==
    /\ mounted /\ view = "generator"
    /\ ~isGenerating
    /\ Trim(idea) # "" /\ ~onboardingData.null
    /\ isGenerating' = TRUE
    /\ results' = [p \in Platforms |->
                     IF p \in activePlatforms THEN InitialResult(p)
                     ELSE NoResult]
    /\ requests' =
          [platforms |-> activePlatforms, shared |-> syncImages,
           text |-> [p \in Platforms |->
                       IF p \in activePlatforms THEN "pending" ELSE "idle"],
           image |-> [p \in Platforms |->
                       IF p \in activePlatforms THEN "pending" ELSE "idle"],
           handled |-> {}]
    /\ UNCHANGED <<view, onboardingData, storage, mounted, entered, idea,
                   syncImages, scheduledPosts, scheduled, modalVars>>

\* how Promise.all([textPromise, imagePromise]) of a platform stands
Outcome(req, p) ==
    IF req.text[p] = "error" \/ req.image[p] = "error" THEN "rejected"
    ELSE IF req.text[p] = "ok" /\ req.image[p] = "ok" THEN "fulfilled"
    ELSE "pending"

\* the catch branch that leaves the post loading
FailedStillLoading(r, message) == [r EXCEPT !.error = message]

\* { ...prev[p]!, loading: false, error: err.message }
Failed(r, message) == [r EXCEPT !.loading = FALSE, !.error = message]

\* { ...prev[p]!, content, suggestedTime, imageUrl: image, loading: false }
Succeeded(r, p, shared) ==
    [r EXCEPT !.content = GeneratedText(p),
              !.suggestedTime = SuggestedTime,
              !.imageUrl = GeneratedImage(IF shared THEN "LinkedIn" ELSE p),
              !.loading = FALSE]

\* what runs, before any other event, once a request has settled (req is
\* requests with that request settled): the rest of the async callback of
\* each platform whose Promise.all is settled now, and the finally block
\* once every callback has returned
Continue(req, message) ==
    LET done == {p \in req.platforms \ req.handled :
                    Outcome(req, p) # "pending"}
        handled == req.handled \cup done
    IN  /\ results' = [p \in Platforms |->
                         IF p \notin done THEN results[p]
                         ELSE IF Outcome(req, p) = "fulfilled"
                              THEN Succeeded(results[p], p, req.shared)
                              ELSE Failed(results[p], message)]
        /\ requests' = [req EXCEPT !.handled = handled]
        /\ isGenerating' = IF handled = req.platforms THEN FALSE
                           ELSE isGenerating

\* generateSocialText of platform p returns (ok) or throws
TextSettles(p, ok) ==
    /\ p \in requests.platforms \ requests.handled
    /\ requests.text[p] = "pending"
    /\ Continue([requests EXCEPT !.text[p] = IF ok THEN "ok" ELSE "error"],
                TextError)
    /\ UNCHANGED <<view, onboardingData, storage, mounted, entered, idea,
                   syncImages, scheduledPosts, scheduled,
                   modalVars>>

\* generateSocialImage returns (ok) or throws: with Auto-Sync the one
\* sharedImagePromise of all platforms, else imagePromise of platform p
ImageSettles(p, ok) ==
    /\ p \in requests.platforms \ requests.handled
    /\ requests.image[p] = "pending"
    /\ Continue([requests EXCEPT !.image = [q \in Platforms |->
                    IF (q = p \/ requests.shared) /\ @[q] = "pending"
                    THEN IF ok THEN "ok" ELSE "error"
                    ELSE @[q]]],
                ImageError)
    /\ UNCHANGED <<view, onboardingData, storage, mounted, entered, idea,
                   syncImages, scheduledPosts, scheduled,
                   modalVars>>

(***************************************************************************)
(* App: the posts' cards and the calendar.                                 *)
(***************************************************************************)
\* what Save of a card's textarea hands to onContentChange
Contents == {"edited"}

\* what a card's cropper, editor or file input hands to onImageUpdated
NewUrls == {"replaced image"}

\* what the date picker's input holds at Confirm: if(val) onSchedule(val)
Dates == {"2026-11-06T09:00"}

\* the cards the generator view renders: activePlatforms.map(...) and, in
\* PlatformCard, if (!result) return null
Cards ==
    IF mounted /\ view = "generator"
    THEN {p \in activePlatforms : ~results[p].null}
    ELSE {}

\* onContentChange={c => setResults(prev => ({ ...prev, [p]: { ...prev[p]!,
\* content: c } }))}, from Save of the card's textarea: the card shows the
\* textarea, where c is typed, only for a post that is not loading and has
\* no error, and takes the post's content for c when that changes
onContentChange(p, c) ==
    /\ p \in Cards
    /\ ~results[p].loading /\ results[p].error = ""
    /\ results' = [results EXCEPT ![p].content = c]
    /\ UNCHANGED <<view, onboardingData, storage, mounted, entered, idea,
                   syncImages, scheduledPosts, isGenerating, requests,
                   scheduled, modalVars>>

\* onImageUpdated={newUrl => setResults(prev => ({ ...prev, [p]: {
\* ...prev[p]!, imageUrl: newUrl } }))}: the card shows its image, and the
\* place to upload one, once the post is not loading
ImageUpdated(p, newUrl) ==
    /\ p \in Cards
    /\ ~results[p].loading
    /\ results' = [results EXCEPT ![p].imageUrl = newUrl]
    /\ UNCHANGED <<view, onboardingData, storage, mounted, entered, idea,
                   syncImages, scheduledPosts, isGenerating, requests,
                   scheduled, modalVars>>

\* handleSyncThisImage, from the Sync All button of card p, shown when
\* result.imageUrl && !result.loading
handleSyncThisImage(p) ==
    /\ p \in Cards
    /\ results[p].imageUrl # "" /\ ~results[p].loading
    /\ results' = [q \in Platforms |->
                     IF q \in activePlatforms /\ ~results[q].null
                     THEN [results[q] EXCEPT !.imageUrl = results[p].imageUrl]
                     ELSE results[q]]
    /\ UNCHANGED <<view, onboardingData, storage, mounted, entered, idea,
                   syncImages, scheduledPosts, isGenerating, requests,
                   scheduled, modalVars>>

\* newScheduled of handleSchedule(post, date); the id Math.random gives is
\* one no other entry has
NewScheduled(post, date) ==
    [id |-> scheduled + 1, postId |-> post.id, platform |-> post.platform,
     content |-> post.content, imageUrl |-> post.imageUrl,
     scheduledAt |-> date]

\* onSchedule={d => results[p] && handleSchedule(results[p]!, d)}, from
\* Confirm of card p's date picker
handleSchedule(p, date) ==
    /\ p \in Cards
    /\ scheduled < MaxScheduled
    /\ scheduledPosts' = Append(scheduledPosts,
                                NewScheduled(results[p], date))
    /\ scheduled' = scheduled + 1
    /\ UNCHANGED <<view, onboardingData, storage, mounted, entered, idea,
                   syncImages, results, isGenerating, requests, modalVars>>

\* a filter that drops every entry made of the same post
filterOutPost(prev, id) ==
    LET gone == {e.postId : e \in {prev[i] : i \in
                    {j \in DOMAIN prev : prev[j].id = id}}}
        keep(e) == e.postId \notin gone
    IN  SelectSeq(prev, keep)

\* prev.filter(p => p.id !== id)
filterOut(prev, id) ==
    LET keep(e) == e.id # id
    IN  SelectSeq(prev, keep)

\* onDelete={id => setScheduledPosts(prev => prev.filter(...))}, from the
\* calendar's entry with that id
onDelete(id) ==
    /\ mounted /\ view = "calendar"
    /\ \E i \in DOMAIN scheduledPosts : scheduledPosts[i].id = id
    /\ scheduledPosts' = filterOut(scheduledPosts, id)
    /\ UNCHANGED <<view, onboardingData, storage, mounted, entered, idea,
                   syncImages, results, isGenerating, requests, scheduled,
                   modalVars>>

\* the profile and the views
ProfileNext ==
    \/ \E saved \in {NoItem} \cup {JSONstringify(d) : d \in Profiles} :
          MountEffect(saved)
    \/ \E data \in Profiles : handleOnboardingSubmit(data)
    \/ onCancel
    \/ \E v \in {"generator", "calendar", "onboarding"} : setView(v)

\* a generateContent call and its requests
GenerateNext ==
    \/ \E i \in Ideas : setIdea(i)
    \/ setSyncImages
    \/ generateContent
    \/ \E p \in Platforms, ok \in BOOLEAN : TextSettles(p, ok)
    \/ \E p \in Platforms, ok \in BOOLEAN : ImageSettles(p, ok)

\* the cards' edits
CardNext ==
    \/ \E p \in Platforms, c \in Contents : onContentChange(p, c)
    \/ \E p \in Platforms, newUrl \in NewUrls : ImageUpdated(p, newUrl)
    \/ \E p \in Platforms : handleSyncThisImage(p)

\* the calendar
ScheduleNext ==
    \/ \E p \in Platforms, date \in Dates : handleSchedule(p, date)
    \/ \E id \in 1..MaxScheduled : onDelete(id)

\* the onboarding form, the header and the generator's sidebar
AppNext == ProfileNext \/ GenerateNext

\* the generator's cards and the calendar, for a profile of both platforms
\* whose requests all return
CalendarNext ==
    \/ \E v \in {"generator", "calendar"} : setView(v)
    \/ generateContent
    \/ \E p \in Platforms : TextSettles(p, TRUE)
    \/ \E p \in Platforms : ImageSettles(p, TRUE)
    \/ CardNext
    \/ ScheduleNext

Init ==
    /\ imageUrl \in Images
    /\ edits = 0
    /\ session = [state |-> "none", image |-> imageUrl, edited |-> FALSE]
    /\ isCropping = FALSE
    /\ targetRatio = Z(1)
    /\ crop = InitialCrop
    /\ isDragging = FALSE
    /\ rendered = Snapshot(InitialCrop, FALSE)
    /\ cropImg = "pending"
    /\ moves = 0
    /\ lastMove = NoMove
    /\ lastCrop = NoOutput
    /\ cropError = FALSE
    /\ isDesigning = FALSE
    /\ style = InitialStyle
    /\ canvas = BlankCanvas
    /\ ctx2d = TRUE
    /\ loads = {}
    /\ effects = 0
    /\ renders = <<>>
    /\ lastRender = NoRender
    /\ lastSave = NoOutput
    /\ view = "onboarding"
    /\ onboardingData = NoProfile
    /\ storage = NoItem
    /\ mounted = FALSE
    /\ entered = "none"
    /\ idea = ""
    /\ syncImages = FALSE
    /\ results = [p \in Platforms |-> NoResult]
    /\ scheduledPosts = <<>>
    /\ isGenerating = FALSE
    /\ requests = NoRequests
    /\ scheduled = 0

\* the cropper on the post's image, and what it hands back cropped again
CropSpec == Init /\ [][CropNext]_vars

\* the editor on the post's image, and what it hands back edited again
EditSpec == Init /\ [][EditNext]_vars

\* the App before its mount effect; the cards' croppers and editors are
\* left closed
AppInit == Init /\ imageUrl.w = imageUrl.h /\ imageUrl.ok

\* the App: its profile, its views and its generateContent calls
AppSpec == AppInit /\ [][AppNext]_vars

\* every request returns or throws in the end
AppLiveSpec ==
    /\ AppSpec
    /\ \A p \in Platforms :
          /\ WF_vars(\E ok \in BOOLEAN : TextSettles(p, ok))
          /\ WF_vars(\E ok \in BOOLEAN : ImageSettles(p, ok))

\* the profile of a visit that submitted both platforms
SavedProfile == [null |-> FALSE, selectedPlatforms |-> Platforms]

\* the App after its mount effect found SavedProfile in localStorage and an
\* idea was typed
CalendarInit ==
    /\ imageUrl \in Images
    /\ imageUrl.w = imageUrl.h /\ imageUrl.ok
    /\ edits = 0
    /\ session = [state |-> "none", image |-> imageUrl, edited |-> FALSE]
    /\ isCropping = FALSE
    /\ targetRatio = Z(1)
    /\ crop = InitialCrop
    /\ isDragging = FALSE
    /\ rendered = Snapshot(InitialCrop, FALSE)
    /\ cropImg = "pending"
    /\ moves = 0
    /\ lastMove = NoMove
    /\ lastCrop = NoOutput
    /\ cropError = FALSE
    /\ isDesigning = FALSE
    /\ style = InitialStyle
    /\ canvas = BlankCanvas
    /\ ctx2d = TRUE
    /\ loads = {}
    /\ effects = 0
    /\ renders = <<>>
    /\ lastRender = NoRender
    /\ lastSave = NoOutput
    /\ view = "generator"
    /\ onboardingData = SavedProfile
    /\ storage = JSONstringify(SavedProfile)
    /\ mounted = TRUE
    /\ entered = "saved"
    /\ idea = "launch"
    /\ syncImages = FALSE
    /\ results = [p \in Platforms |-> NoResult]
    /\ scheduledPosts = <<>>
    /\ isGenerating = FALSE
    /\ requests = NoRequests
    /\ scheduled = 0

\* the App's cards and calendar
CalendarSpec == CalendarInit /\ [][CalendarNext]_vars

(***************************************************************************)
(* Properties of the cropper, checked under CropSpec.                      *)
(***************************************************************************)
Positive(r) == RLt(Z(0), r)

\* w is the integer part of the non-negative number a
IsIntegerPart(w, a) == w * a.d <= a.n /\ a.n < (w + 1) * a.d

\* the natural size applyCrop read from the <img>
CroppedNatural ==
    IF lastCrop.loaded
    THEN [w |-> lastCrop.source.w, h |-> lastCrop.source.h]
    ELSE [w |-> 0, h |-> 0]

\* C1: for every targetRatio > 0 and after any sequence of drag updates from
\* {x:10, y:10, width:80}, the selection has 0 <= x, 0 <= y,
\* x + clampedWidth <= 100, y + clampedHeight <= 100 and
\* clampedWidth = clampedHeight * targetRatio.
C1_SelectionContained ==
    (isCropping /\ Positive(targetRatio)) =>
        LET ch == clampedHeight(crop, targetRatio)
            cw == clampedWidth(crop, targetRatio)
        IN  /\ RLe(Z(0), crop.x)
            /\ RLe(Z(0), crop.y)
            /\ RLe(RAdd(crop.x, cw), Z(100))
            /\ RLe(RAdd(crop.y, ch), Z(100))
            /\ RMul(cw, Z(targetRatio.d)) = RMul(ch, Z(targetRatio.n))

\* a selection dragged to the left edge, with the bottom clamp cutting the
\* height below width / targetRatio
C1_Witness ==
    /\ isCropping /\ Positive(targetRatio)
    /\ moves > 0
    /\ crop # InitialCrop
    /\ crop.x = Z(0)
    /\ RLt(clampedHeight(crop, targetRatio), RDiv(crop.width, targetRatio))

\* C2: for every source image, square or not, the pixel region applyCrop
\* extracts has sourceWidth / sourceHeight equal to targetRatio.
C2_CropRatioMatches ==
    (lastCrop.handed /\ lastCrop.drawn /\ Positive(lastCrop.ratio)) =>
        lastCrop.region.sourceWidth
            = RMul(lastCrop.region.sourceHeight, lastCrop.ratio)

\* C3 as stated: the image applyCrop produces is
\* round(clampedWidth/100 * naturalWidth) wide and
\* round(clampedHeight/100 * naturalHeight) high.
C3_RoundedSize ==
    lastCrop.handed =>
        /\ imageUrl.w = MathRound(RMul(RDiv(clampedWidth(lastCrop.selection,
                                                         lastCrop.ratio),
                                            Z(100)), Z(CroppedNatural.w)))
        /\ imageUrl.h = MathRound(RMul(RDiv(clampedHeight(lastCrop.selection,
                                                          lastCrop.ratio),
                                            Z(100)), Z(CroppedNatural.h)))

\* C3 as amended: the image applyCrop produces is the integer part of
\* clampedWidth/100 * naturalWidth wide and the integer part of
\* clampedHeight/100 * naturalHeight high.
C3_TruncatedSize ==
    lastCrop.handed =>
        /\ IsIntegerPart(imageUrl.w,
                         RMul(RDiv(clampedWidth(lastCrop.selection,
                                                lastCrop.ratio),
                                   Z(100)), Z(CroppedNatural.w)))
        /\ IsIntegerPart(imageUrl.h,
                         RMul(RDiv(clampedHeight(lastCrop.selection,
                                                 lastCrop.ratio),
                                   Z(100)), Z(CroppedNatural.h)))

\* a crop of a decoded image, after a drag, whose fractional height is
\* nearer to the next integer
C3_Witness ==
    /\ lastCrop.handed /\ lastCrop.drawn
    /\ lastCrop.selection # InitialCrop
    /\ lastCrop.region.sourceHeight.d # 1
    /\ imageUrl.h # MathRound(lastCrop.region.sourceHeight)

\* C4: a crop session started with targetRatio <= 0 or with an image of zero
\* width or height fails with InvalidInput: no selection exists for it and
\* no update or applyCrop runs on it.
C4_InvalidInputRejected ==
    isCropping =>
        /\ Positive(targetRatio)
        /\ imageUrl.w > 0
        /\ imageUrl.h > 0

(***************************************************************************)
(* Properties of the editor, checked under EditSpec (C6 under CropSpec).   *)
(***************************************************************************)
\* the source image drawn at the origin under no shadow
SourceLayer(img) ==
    [op |-> "drawImage", image |-> img, dx |-> 0, dy |-> 0,
     shadowColor |-> DefaultCtx.shadowColor,
     shadowBlur |-> DefaultCtx.shadowBlur]

TextLayers(ops) == {i \in DOMAIN ops : ops[i].op = "fillText"}

\* C5: every image handed to the caller by applyCrop or by the overlay save
\* is a complete render of a decoded source; when the source did not decode
\* or no drawing context was acquired, no image is handed over.
C5_OutputAtomic ==
    /\ lastCrop.handed => lastCrop.drawn
    /\ lastSave.handed =>
          /\ lastSave.source.ok
          /\ lastSave.ops # <<>>
          /\ lastSave.ops[1] = SourceLayer(lastSave.source)

\* C6: the image's load completion is observed before any rendering or
\* export runs: neither applyCrop nor handleSave executes while the load is
\* pending.
C6_LoadBeforeExport ==
    /\ lastCrop.handed => lastCrop.loaded
    /\ lastSave.handed => (lastSave.pending = {} /\ lastSave.rendered.done)

\* C7: after any sequence of renders with different styles, the canvas holds
\* the untouched source and at most one text layer, that of the last
\* completed render.
C7_TextReplaced ==
    (isDesigning /\ lastRender.done) =>
        /\ canvas.ops # <<>>
        /\ canvas.ops[1] = SourceLayer(imageUrl)
        /\ Cardinality(TextLayers(canvas.ops)) <= 1
        /\ Len(canvas.ops) = 1 + Cardinality(TextLayers(canvas.ops))
        /\ \A i \in TextLayers(canvas.ops) :
              /\ canvas.ops[i].text = lastRender.style.text
              /\ canvas.ops[i].ctx.fillStyle = lastRender.style.color
              /\ canvas.ops[i].ctx.font.family = lastRender.style.font.family
        /\ (lastRender.style.text # "") => TextLayers(canvas.ops) # {}

\* a render of one text completed after a render of another text
C7_Witness ==
    /\ isDesigning /\ lastRender.done
    /\ TextLayers(canvas.ops) # {}
    /\ \E i \in DOMAIN renders :
          /\ renders[i].id # lastRender.id
          /\ renders[i].style.text # ""
          /\ renders[i].style.text # lastRender.style.text

\* C8: two renders of the same source with the same style leave the same
\* canvas contents and size, whatever was rendered in between.
C8_RenderIdempotent ==
    \A i, j \in DOMAIN renders :
        renders[i].style = renders[j].style => renders[i].out = renders[j].out

\* the same style rendered twice, with a render that drew a text in between
C8_Witness ==
    \E i, j, k \in DOMAIN renders :
        /\ i < j /\ j < k
        /\ renders[i].style = renders[k].style
        /\ renders[j].style # renders[i].style
        /\ renders[j].style.text # ""

\* C9: text is drawn if and only if style.text is not empty; with an empty
\* text the rendered and saved image has the source's size and is the source
\* itself.
C9_EmptyTextIsSource ==
    /\ \A i \in DOMAIN renders :
          (TextLayers(renders[i].out.ops) # {})
              <=> (renders[i].style.text # "")
    /\ (lastSave.handed /\ lastSave.style.text = "") =>
          /\ lastSave.width = lastSave.source.w
          /\ lastSave.height = lastSave.source.h
          /\ lastSave.ops = <<SourceLayer(lastSave.source)>>

\* C10: the font size the text is drawn with is fontSizePx * (naturalWidth /
\* 500).
C10_FontScaled ==
    \A i \in DOMAIN renders :
        \A k \in TextLayers(renders[i].out.ops) :
            RMul(renders[i].out.ops[k].ctx.font.px, Z(500))
                = Z(renders[i].style.fontSize * imageUrl.w)

\* fontSizePx = 32 on an image 1000 wide is drawn at 64px
C10_Witness ==
    /\ imageUrl.w = 1000
    /\ \E i \in DOMAIN renders :
          /\ renders[i].style.fontSize = 32
          /\ \E k \in TextLayers(renders[i].out.ops) :
                renders[i].out.ops[k].ctx.font.px = Z(64)

(***************************************************************************)
(* Properties of the drag updates, checked under CropSpec.                 *)
(***************************************************************************)
\* C11: every drag update is a function of the selection it is applied to
\* and of the pointer alone, also when several moves are handled in a row:
\* x = clamp(px - width/2, 0, 100 - width) and y = clamp(py -
\* clampedHeight/2, 0, 100 - clampedHeight), with clampedHeight computed from
\* the y of that same selection.
C11_UpdateFromSameSelection ==
    (lastMove.handled /\ lastMove.isDragging /\ Positive(targetRatio)) =>
        crop = updateSelection(lastMove.prev,
                               clampedHeight(lastMove.prev, targetRatio),
                               lastMove.px, lastMove.py)

\* C12: on a 1000 x 1000 image with targetRatio 16/9 and the initial
\* selection, not dragged, height and clampedHeight are 45 and clampedWidth
\* is 80; applyCrop extracts the region from (100, 100) to (900, 550) and
\* produces an 800 x 450 image.
C12_InitialCropRegion ==
    ( /\ lastCrop.handed /\ lastCrop.loaded
      /\ lastCrop.source.w = 1000 /\ lastCrop.source.h = 1000
      /\ lastCrop.ratio = Rat(16, 9)
      /\ lastCrop.selection = InitialCrop ) =>
        /\ RDiv(InitialCrop.width, lastCrop.ratio) = Z(45)
        /\ clampedHeight(lastCrop.selection, lastCrop.ratio) = Z(45)
        /\ clampedWidth(lastCrop.selection, lastCrop.ratio) = Z(80)
        /\ lastCrop.region.sourceX = Z(100)
        /\ lastCrop.region.sourceY = Z(100)
        /\ RAdd(lastCrop.region.sourceX, lastCrop.region.sourceWidth) = Z(900)
        /\ RAdd(lastCrop.region.sourceY, lastCrop.region.sourceHeight)
              = Z(550)
        /\ lastCrop.drawn
        /\ imageUrl.w = 800
        /\ imageUrl.h = 450

\* Apply Crop on the 1000 x 1000 image at 16/9 with the selection untouched
C12_Witness ==
    /\ lastCrop.handed /\ lastCrop.loaded
    /\ lastCrop.source.w = 1000 /\ lastCrop.source.h = 1000
    /\ lastCrop.ratio = Rat(16, 9)
    /\ lastCrop.selection = InitialCrop
    /\ imageUrl.gen = 1

\* C13: no drag update changes the width of the selection: it is 80 in
\* every state of a crop session, and in the selection applyCrop reads.
C13_WidthConstant ==
    /\ isCropping =>
          /\ crop.width = Z(80)
          /\ rendered.crop.width = Z(80)
          /\ lastMove.handled => lastMove.prev.width = Z(80)
    /\ lastCrop.handed => lastCrop.selection.width = Z(80)

\* a drag update has moved the selection
C13_Witness ==
    /\ isCropping
    /\ lastMove.handled /\ lastMove.isDragging
    /\ crop.x # lastMove.prev.x
    /\ crop.y # lastMove.prev.y

\* neither Math.max(0, ...) nor Math.min(..., 100 - ...) changed the value
\* in the last drag update, on either axis
EdgeClampsInactive ==
    LET hx == RSub(Z(lastMove.px), RDiv(lastMove.prev.width, Z(2)))
        hy == RSub(Z(lastMove.py), RDiv(lastMove.clampedHeight, Z(2)))
    IN  /\ RLe(Z(0), hx)
        /\ RLe(hx, RSub(Z(100), lastMove.prev.width))
        /\ RLe(Z(0), hy)
        /\ RLe(hy, RSub(Z(100), lastMove.clampedHeight))

\* the centre of [x, x + clampedWidth] x [y, y + clampedHeight] is the
\* pointer of the last move
CentredOnPointer ==
    /\ RAdd(crop.x, RDiv(clampedWidth(crop, targetRatio), Z(2)))
          = Z(lastMove.px)
    /\ RAdd(crop.y, RDiv(clampedHeight(crop, targetRatio), Z(2)))
          = Z(lastMove.py)

C20_MoveOnlyWhileDragging ==
    (lastMove.handled /\ ~lastMove.state) => crop = lastMove.prev

\* C21: no drag update decreases the clamped height of the selection (nor,
\* with it, the clamped width): the rectangle after a drag update is never
\* smaller than the one it was applied to.
C21_HeightNeverDecreases ==
    (lastMove.handled /\ lastMove.isDragging /\ Positive(targetRatio)) =>
        /\ RLe(clampedHeight(lastMove.prev, targetRatio),
               clampedHeight(crop, targetRatio))
        /\ RLe(clampedWidth(lastMove.prev, targetRatio),
               clampedWidth(crop, targetRatio))

(***************************************************************************)
(* Properties of the editor's renders, checked under EditSpec.             *)
(***************************************************************************)
\* C14: no surface is shared between concurrent renders: two renders whose
\* image loads are pending at the same time never write to the same canvas.
C14_NoSharedSurface ==
    \A a, b \in loads : a.id # b.id => Surface(a) # Surface(b)

C18_SessionLifecycle ==
    /\ (isCropping /\ moves = 0) =>
          /\ crop = InitialCrop
          /\ rendered.crop = InitialCrop
    /\ lastCrop.handed =>
          /\ ~isCropping
          /\ session.state = "apply"
          /\ session.image = lastCrop.source
          /\ imageUrl.gen = lastCrop.source.gen + 1
          /\ imageUrl.w = lastCrop.region.width
          /\ imageUrl.h = lastCrop.region.height

\* a selection dragged away and applied: crop mode is closed on the cropped
\* image
C18_Witness ==
    /\ lastCrop.handed /\ lastCrop.drawn
    /\ lastCrop.selection # InitialCrop
    /\ session.state = "apply" /\ session.edited
    /\ ~isCropping
    /\ imageUrl # lastCrop.source

(***************************************************************************)
(* Properties of the overlay, checked under EditSpec.                      *)
(***************************************************************************)
\* C16: the surface every render leaves has exactly the source image's
\* width and height, and a non-empty text is drawn once on it, centred
\* horizontally at x = width / 2 and at y = height * positionYPercent / 100.
C16_TextPlacement ==
    \A i \in DOMAIN renders :
        LET out == renders[i].out
            st  == renders[i].style
        IN  /\ out.width = imageUrl.w
            /\ out.height = imageUrl.h
            /\ (st.text # "") =>
                  /\ Cardinality(TextLayers(out.ops)) = 1
                  /\ \A k \in TextLayers(out.ops) :
                        /\ out.ops[k].text = st.text
                        /\ out.ops[k].ctx.textAlign = "center"
                        /\ RMul(out.ops[k].x, Z(2)) = Z(imageUrl.w)
                        /\ RMul(out.ops[k].y, Z(100))
                              = Z(imageUrl.h * st.positionY)

\* a text drawn at the bottom edge (positionYPercent = 100) of the 1344 x
\* 768 image: x = 672, y = 768
C16_Witness ==
    /\ imageUrl.w = 1344 /\ imageUrl.h = 768
    /\ \E i \in DOMAIN renders :
          /\ renders[i].style.text # ""
          /\ renders[i].style.positionY = 100
          /\ \E k \in TextLayers(renders[i].out.ops) :
                /\ renders[i].out.ops[k].x = Z(672)
                /\ renders[i].out.ops[k].y = Z(768)

\* C19: in every state of the editor fontSizePx is an integer in [10, 100]
\* and positionYPercent an integer in [0, 100], 32 and 50 as mounted,
\* whatever the sliders were dragged to; so are they in every style a render
\* is started or completed with.
C19_StyleInRange ==
    LET InRange(st) == /\ st.fontSize \in 10..100
                       /\ st.positionY \in 0..100
    IN  isDesigning =>
            /\ InRange(style)
            /\ (effects = 1) => (style.fontSize = 32 /\ style.positionY = 50)
            /\ \A l \in loads : InRange(l.style)
            /\ \A i \in DOMAIN renders : InRange(renders[i].style)

\* the Scale thumb dragged past the right end and the Vertical Position
\* thumb past the left end
C19_Witness ==
    /\ isDesigning
    /\ style.fontSize = 100
    /\ style.positionY = 0

\* C22: after any style changes, once every pending image load has completed,
\* in whatever order, the canvas holds the render of the current style (and
\* that is what Apply Overlay saves), never the render of an earlier style.
C22_LatestStyleShown ==
    /\ (isDesigning /\ ctx2d /\ imageUrl.ok /\ loads = {}) =>
          /\ lastRender.done
          /\ lastRender.style = style
          /\ canvas = onload(BlankCanvas, style, imageUrl)
    /\ (lastSave.handed /\ lastSave.source.ok /\ lastSave.pending = {}
          /\ lastSave.rendered.done) =>
          lastSave.rendered.style = lastSave.style

(***************************************************************************)
(* Properties of the App's views, checked under AppSpec.                   *)
(***************************************************************************)
\* C24: whenever the view is 'generator' or 'calendar' there is a profile
\* (onboardingData is not null), and the view was entered from the
\* onboarding form by a submit, by the saved profile the mount effect
\* found, or by Cancel.
C24_MainViewHasProfile ==
    view \in {"generator", "calendar"} =>
        /\ ~onboardingData.null
        /\ onboardingData \in Profiles
        /\ entered \in {"submit", "saved", "cancel"}

\* the main view entered by cancelling the onboarding form, with a profile
C24_Witness ==
    /\ view = "generator"
    /\ entered = "cancel"
    /\ ~onboardingData.null

(***************************************************************************)
(* Properties of the calendar, checked under CalendarSpec.                 *)
(***************************************************************************)
\* posts without the entry at index i
WithoutEntry(posts, i) ==
    [j \in 1..(Len(posts) - 1) |-> IF j < i THEN posts[j] ELSE posts[j + 1]]

\* the step appends one entry, made of the post of a card as it is
OneEntryAppended ==
    /\ Len(scheduledPosts') = Len(scheduledPosts) + 1
    /\ SubSeq(scheduledPosts', 1, Len(scheduledPosts)) = scheduledPosts
    /\ \E p \in Cards :
          LET entry == scheduledPosts'[Len(scheduledPosts')]
          IN  /\ entry.postId = results[p].id
              /\ entry.platform = p
              /\ entry.content = results[p].content
              /\ entry.imageUrl = results[p].imageUrl
              /\ \A i \in DOMAIN scheduledPosts :
                    scheduledPosts[i].id # entry.id

\* the step removes one entry and keeps the others, in their order
OneEntryRemoved ==
    \E i \in DOMAIN scheduledPosts :
        /\ scheduledPosts' = WithoutEntry(scheduledPosts, i)
        /\ \A j \in DOMAIN scheduledPosts' :
              scheduledPosts'[j].id # scheduledPosts[i].id

\* C25: scheduling a post appends exactly one entry, with the post's
\* platform, content and imageUrl of that moment, and leaves the entries
\* there unchanged; a step that changes the posts (an edit of the content,
\* a new image from the cropper, the editor or an upload, a sync, a
\* regeneration and its results) leaves every entry unchanged; and a
\* delete removes exactly the entry of that id.
C25_EntriesAreSnapshots ==
    [][/\ results' # results => scheduledPosts' = scheduledPosts
       /\ Len(scheduledPosts') > Len(scheduledPosts) =>
             OneEntryAppended /\ view = "generator"
       /\ Len(scheduledPosts') < Len(scheduledPosts) =>
             OneEntryRemoved /\ view = "calendar"
       /\ Len(scheduledPosts') = Len(scheduledPosts) =>
             scheduledPosts' = scheduledPosts]_vars

\* two entries were made of one post, before and after an edit of its
\* content; the first was deleted, and the post has a new image since
C25_Witness ==
    /\ scheduled = 2
    /\ Len(scheduledPosts) = 1
    /\ scheduledPosts[1].id = 2
    /\ scheduledPosts[1].content = "edited"
    /\ \E p \in Platforms :
          /\ ~results[p].null
          /\ results[p].id = scheduledPosts[1].postId
          /\ results[p].imageUrl # scheduledPosts[1].imageUrl

(***************************************************************************)
(* Properties of generateContent, checked under AppLiveSpec.               *)
(***************************************************************************)
\* the post of platform p is no longer loading and holds either the
\* generated content and an image, or an error message
Settled(p) ==
    /\ ~results[p].null
    /\ ~results[p].loading
    /\ \/ results[p].error # ""
       \/ results[p].content # "" /\ results[p].imageUrl # ""

\* the post of a platform whose callback has returned is not loading, and
\* when the platform's own text and image requests both returned it holds
\* their content and image and no error, whatever the other platform's
\* requests did
OwnOutcome(p) ==
    /\ ~results[p].loading
    /\ IF Outcome(requests, p) = "fulfilled"
       THEN /\ results[p].error = ""
            /\ results[p].content = GeneratedText(p)
            /\ results[p].imageUrl # ""
       ELSE results[p].error # ""

\* C23: after generateContent has started, in whatever order the requests
\* return or throw, isGenerating becomes false with every platform of the
\* call settled: not loading, and holding generated content with an image
\* or an error message; and a platform whose own requests returned has no
\* error and is not left loading because another platform's request threw.
C23_GenerationSettles ==
    /\ [](\A p \in requests.handled : OwnOutcome(p))
    /\ [](~isGenerating => requests.handled = requests.platforms)
    /\ isGenerating ~>
          (~isGenerating /\ \A p \in requests.platforms : Settled(p))

\* a call for both platforms is over: the text request of one threw, and
\* the other holds its content and image
C23_Witness ==
    /\ ~isGenerating
    /\ requests.platforms = Platforms
    /\ \E p, q \in Platforms :
          /\ requests.text[p] = "error"
          /\ results[p].error = TextError
          /\ Outcome(requests, q) = "fulfilled"
          /\ results[q].content = GeneratedText(q)
          /\ results[q].error = ""

====
